---- MODULE Spec2Model ----
(***************************************************************************)
(* DanielsNumber1 (user_data/strategies/DanielsNumber1.py): the strategy's *)
(* three callbacks, populate_indicators, populate_entry_trend and          *)
(* populate_exit_trend, run by the host on the candle table of one pair    *)
(* each time a candle closes.                                              *)
(*                                                                         *)
(* Numbers.  A float column holds <<v>> (the number v, an integer count of *)
(* ticks) or <<>> (NaN).  A comparison with NaN is FALSE, as in pandas. A  *)
(* mean or a smoothing step is rounded down to a whole tick where the      *)
(* library rounds to a double.  A product with a decimal parameter such as *)
(* 2.7 is compared exactly, by cross-multiplying (x > y * 2.7 is           *)
(* 10 x > 27 y); the parameter is held as its numerator.                   *)
(*                                                                         *)
(* Window lengths.  The strategy's periods (28, 40, 80, 200, ...) are the   *)
(* lengths of rolling windows; the model keeps every window computation as *)
(* the code has it and runs it at shorter lengths, so that a table of      *)
(* MaxLen candles holds full windows of every indicator.  Each period      *)
(* below names the attribute it stands for and the value the source gives. *)
(* As in the source, the ATR mean (atr_period + atr_avg_period - 1 rows)    *)
(* is not defined before the first full wyckoff_period window, the slow    *)
(* EMA is the last operand of the long mask to be defined, the trend SMA   *)
(* the last of the short mask, and startup_candle_count lies beyond both.  *)
(* Rows are numbered from 0, as in the DataFrame.                          *)
(***************************************************************************)
EXTENDS Integers, Sequences, FiniteSets, TLC

VARIABLES candles, dataframe, stage

vars == <<candles, dataframe, stage>>

(* ----------------------------- periods -------------------------------- *)
\* Longest table the host hands over when the market trends (Spec).
MaxLen == 8

\* Longest table the host hands over when every kind of candle may close
\* (SpecAll).
MaxLenAll == 6

\* startup_candle_count = 250 (line 49)
startup_candle_count == 7
\* breakout_period = 28 (line 74)
breakout_period == 2
\* atr_spike_lookback = 20 (line 89)
atr_spike_lookback == 2
\* ema_fast = 40 (line 92)
ema_fast == 2
\* ema_slow = 80 (line 93)
ema_slow == 4
\* sma_trend = 200 (line 94)
sma_trend == 5
\* momentum_lookback = 5 (line 97)
momentum_lookback == 1
\* volume_sma_period = 20 (line 98)
volume_sma_period == 3
\* atr_period = 14 (line 99)
atr_period == 2
\* atr_avg_period = 50 (line 100)
atr_avg_period == 2
\* wyckoff_period = 48 (line 101)
wyckoff_period == 3

(* --------------------------- thresholds ------------------------------- *)
\* volume_mult = 2.7, in tenths
volume_mult == 27
\* momentum_pct = 0.02, in hundredths
momentum_pct == 2
\* atr_mult_max = 2.0, in tenths
atr_mult_max == 20
\* volume_mult_short = 2.7, in tenths
volume_mult_short == 27
\* momentum_pct_short = 0.03, in hundredths
momentum_pct_short == 3
\* a boosted multiplier above the standard one
BoostedAboveStandard == volume_mult_short + 3
\* volume_mult_short_boosted = 2.2, in tenths
volume_mult_short_boosted == 22
\* momentum_pct_short_boosted = 0.02, in hundredths
momentum_pct_short_boosted == 2
\* atr_spike_threshold = 1.52, in hundredths
atr_spike_threshold == 152

(* ------------------------------ floats -------------------------------- *)
NaN == <<>>

Num(v) == <<v>>

IsNum(x) == x # NaN

Val(x) == x[1]

\* a > b of two float cells: FALSE when either is NaN
Gt(a, b) == IsNum(a) /\ IsNum(b) /\ Val(a) > Val(b)

Lt(a, b) == IsNum(a) /\ IsNum(b) /\ Val(a) < Val(b)

\* a * k for an integer k
Scaled(a, k) == IF IsNum(a) THEN Num(Val(a) * k) ELSE NaN

Minus(a, b) == IF IsNum(a) /\ IsNum(b) THEN Num(Val(a) - Val(b)) ELSE NaN

MaxOf(T) == CHOOSE m \in T : \A x \in T : x <= m

MinOf(T) == CHOOSE m \in T : \A x \in T : m <= x

Abs(x) == IF x < 0 THEN 0 - x ELSE x

(* ------------------------- pandas: Series ----------------------------- *)
\* Series.shift(k): row i takes row i-k, the first k rows NaN
Shift(S, k) == [i \in DOMAIN S |-> IF i - k \in DOMAIN S THEN S[i - k] ELSE NaN]

\* the rows of the window of length w that ends at row i
Window(i, w) == (i - w + 1)..i

\* rolling(w) has a value at i when the window holds w numbers (min_periods = w)
Full(S, i, w) == i >= w - 1 /\ \A k \in Window(i, w) : IsNum(S[k])

RECURSIVE SumOver(_, _, _)
SumOver(S, lo, hi) == IF lo > hi THEN 0 ELSE Val(S[hi]) + SumOver(S, lo, hi - 1)

RollingMax(S, w) ==
    [i \in DOMAIN S |-> IF Full(S, i, w)
                        THEN Num(MaxOf({Val(S[k]) : k \in Window(i, w)}))
                        ELSE NaN]

RollingMin(S, w) ==
    [i \in DOMAIN S |-> IF Full(S, i, w)
                        THEN Num(MinOf({Val(S[k]) : k \in Window(i, w)}))
                        ELSE NaN]

RollingMean(S, w) ==
    [i \in DOMAIN S |-> IF Full(S, i, w)
                        THEN Num(SumOver(S, i - w + 1, i) \div w)
                        ELSE NaN]

\* a boolean Series as the floats rolling() works on
AsFloat(B) == [i \in DOMAIN B |-> Num(IF B[i] THEN 1 ELSE 0)]

(* ------------------------------ talib --------------------------------- *)
\* ta.EMA: NaN for the first n-1 rows, seeded with the mean of the first n
\* closes, then prev + (2/(n+1)) * (close - prev)
RECURSIVE EMAat(_, _, _)
EMAat(S, n, i) ==
    IF i < n - 1 THEN NaN
    ELSE IF i = n - 1 THEN Num(SumOver(S, 0, n - 1) \div n)
    ELSE LET prev == Val(EMAat(S, n, i - 1))
         IN  Num(prev + (2 * (Val(S[i]) - prev)) \div (n + 1))

EMA(df, n) == [i \in DOMAIN df.close |-> EMAat(df.close, n, i)]

\* SMA over the closes so far while fewer than n precede (min_periods = 1)
SMAFromFirstRow(df, n) ==
    [i \in DOMAIN df.close |->
        LET lo == IF i - n + 1 < 0 THEN 0 ELSE i - n + 1
        IN  Num(SumOver(df.close, lo, i) \div (i - lo + 1))]

\* ta.SMA: the mean of the last n closes
SMA(df, n) == RollingMean(df.close, n)

\* true range of row i >= 1
TrueRange(df, i) ==
    MaxOf({Val(df.high[i]) - Val(df.low[i]),
           Abs(Val(df.high[i]) - Val(df.close[i - 1])),
           Abs(Val(df.low[i]) - Val(df.close[i - 1]))})

RECURSIVE SumTR(_, _, _)
SumTR(df, lo, hi) == IF lo > hi THEN 0 ELSE TrueRange(df, hi) + SumTR(df, lo, hi - 1)

\* ta.ATR: NaN for the first n rows, seeded with the mean of the true ranges
\* of rows 1..n, then Wilder's smoothing (prev * (n-1) + TR) / n
RECURSIVE ATRat(_, _, _)
ATRat(df, n, i) ==
    IF i < n THEN NaN
    ELSE IF i = n THEN Num(SumTR(df, 1, n) \div n)
    ELSE Num((Val(ATRat(df, n, i - 1)) * (n - 1) + TrueRange(df, i)) \div n)

ATR(df, n) == [i \in DOMAIN df.close |-> ATRat(df, n, i)]

(* ------------------- populate_indicators (103-137) --------------------- *)
\* dataframe['bull_regime'] = ema_fast > ema_slow
BullRegime(emaFast, emaSlow) == [i \in DOMAIN emaFast |-> Gt(emaFast[i], emaSlow[i])]

\* bear_regime with the EMA comparison left out
BearRegimeOnTrendOnly(emaFast, emaSlow, close, smaTrend) ==
    [i \in DOMAIN emaFast |-> Lt(close[i], smaTrend[i])]

\* dataframe['bear_regime'] = (ema_fast < ema_slow) & (close < sma_trend)
BearRegime(emaFast, emaSlow, close, smaTrend) ==
    [i \in DOMAIN emaFast |-> Lt(emaFast[i], emaSlow[i]) /\ Lt(close[i], smaTrend[i])]

\* highest without the shift: the window ends at the row's own candle
HighestWithOwnCandle(df) == RollingMax(df.high, breakout_period)

\* dataframe['high'].rolling(breakout_period).max().shift(1)
Highest(df) == Shift(RollingMax(df.high, breakout_period), 1)

\* lowest shifted the other way: the window ends at the next candle
LowestOfNextWindow(df) == Shift(RollingMin(df.low, breakout_period), 0 - 1)

\* dataframe['low'].rolling(breakout_period).min().shift(1)
Lowest(df) == Shift(RollingMin(df.low, breakout_period), 1)

\* 1e-10, as mantissa and negative decimal exponent: smaller than any tick
Epsilon == <<1, 10>>

\* range_size left as it is
KeepZero(S) == S

\* range_size.replace(0, 1e-10)
ReplaceZero(S) == [i \in DOMAIN S |-> IF S[i] = Num(0) THEN Epsilon ELSE S[i]]

RangeSize(df) ==
    LET range_high == RollingMax(df.high, wyckoff_period)
        range_low == RollingMin(df.low, wyckoff_period)
    IN  [i \in DOMAIN df.close |-> Minus(range_high[i], range_low[i])]

\* the divisor of range_position
RangeDivisor(df) == ReplaceZero(RangeSize(df))

\* a / b of two float cells, kept as the fraction; NaN when either is NaN
Quotient(a, b) == IF IsNum(a) /\ IsNum(b) THEN [num |-> Val(a), den |-> b] ELSE NaN

\* range_position = (close - range_low) / range_size.replace(0, 1e-10)
RangePosition(df) ==
    LET range_low == RollingMin(df.low, wyckoff_period)
        divisor == RangeDivisor(df)
    IN  [i \in DOMAIN df.close |-> Quotient(Minus(df.close[i], range_low[i]), divisor[i])]

\* q > 0.5 of a fraction: num / 1e-10 > 0.5 when num is a tick or more; a
\* division by 0 gives inf (num > 0), -inf or NaN
GtHalf(q) ==
    /\ IsNum(q)
    /\ IF q.den = Epsilon THEN q.num >= 1
       ELSE IF Val(q.den) = 0 THEN q.num > 0
       ELSE IF Val(q.den) > 0 THEN 2 * q.num > Val(q.den)
       ELSE 2 * q.num < Val(q.den)

\* distribution = (atr < atr_avg) & (range_position > 0.5)
Distribution(df, atr, atrAvg) ==
    LET range_position == RangePosition(df)
    IN  [i \in DOMAIN df.close |-> Lt(atr[i], atrAvg[i]) /\ GtHalf(range_position[i])]

\* post_distribution without the shift
PostDistributionNoShift(distribution) ==
    LET seen == RollingMax(AsFloat(distribution), wyckoff_period)
    IN  [i \in DOMAIN distribution |-> Gt(seen[i], Num(0))]

\* distribution.rolling(wyckoff_period).max().shift(1) > 0
PostDistribution(distribution) ==
    LET seen == Shift(RollingMax(AsFloat(distribution), wyckoff_period), 1)
    IN  [i \in DOMAIN distribution |-> Gt(seen[i], Num(0))]

\* ~(atr > atr.rolling(atr_spike_lookback).min() * atr_spike_threshold)
NoAtrSpike(atr) ==
    LET atr_recent_min == RollingMin(atr, atr_spike_lookback)
    IN  [i \in DOMAIN atr |->
            ~Gt(Scaled(atr[i], 100), Scaled(atr_recent_min[i], atr_spike_threshold))]

populate_indicators(df) ==
    LET emaFast == EMA(df, ema_fast)
        emaSlow == EMA(df, ema_slow)
        smaTrend == SMA(df, sma_trend)
        atr == ATR(df, atr_period)
        atrAvg == RollingMean(atr, atr_avg_period)
    IN  df @@ [ema_fast |-> emaFast,
               ema_slow |-> emaSlow,
               sma_trend |-> smaTrend,
               bull_regime |-> BullRegime(emaFast, emaSlow),
               bear_regime |-> BearRegime(emaFast, emaSlow, df.close, smaTrend),
               highest |-> Highest(df),
               lowest |-> Lowest(df),
               volume_sma |-> RollingMean(df.volume, volume_sma_period),
               atr |-> atr,
               atr_avg |-> atrAvg,
               post_distribution |-> PostDistribution(Distribution(df, atr, atrAvg)),
               no_atr_spike |-> NoAtrSpike(atr)]

(* ------------------- populate_entry_trend (139-176) -------------------- *)
\* volume > volume_sma * mult, mult in tenths
VolumeAbove(df, mult) ==
    [i \in DOMAIN df.close |-> Gt(Scaled(df.volume[i], 10), Scaled(df.volume_sma[i], mult))]

\* close > close.shift(momentum_lookback) * (1 + pct), pct in hundredths
MomentumUp(df, pct) ==
    LET before == Shift(df.close, momentum_lookback)
    IN  [i \in DOMAIN df.close |-> Gt(Scaled(df.close[i], 100), Scaled(before[i], 100 + pct))]

\* close < close.shift(momentum_lookback) * (1 - pct), pct in hundredths
MomentumDown(df, pct) ==
    LET before == Shift(df.close, momentum_lookback)
    IN  [i \in DOMAIN df.close |-> Lt(Scaled(df.close[i], 100), Scaled(before[i], 100 - pct))]

\* volatility_ok = atr < atr_avg * atr_mult_max
VolatilityOk(df) ==
    [i \in DOMAIN df.close |-> Lt(Scaled(df.atr[i], 10), Scaled(df.atr_avg[i], atr_mult_max))]

\* the long mask with vol_surge left out
LongMaskNoVolume(df) ==
    LET mom_up == MomentumUp(df, momentum_pct)
        volatility_ok == VolatilityOk(df)
    IN  [i \in DOMAIN df.close |->
            /\ df.bull_regime[i]
            /\ Gt(df.close[i], df.highest[i])
            /\ Gt(df.close[i], df.ema_slow[i])
            /\ mom_up[i] /\ volatility_ok[i]]

\* the mask of the long entry (lines 146-149)
LongMask(df) ==
    LET vol_surge == VolumeAbove(df, volume_mult)
        mom_up == MomentumUp(df, momentum_pct)
        volatility_ok == VolatilityOk(df)
    IN  [i \in DOMAIN df.close |->
            /\ df.bull_regime[i]
            /\ Gt(df.close[i], df.highest[i])
            /\ Gt(df.close[i], df.ema_slow[i])
            /\ vol_surge[i] /\ mom_up[i] /\ volatility_ok[i]]

\* short_base with no_atr_spike left out
ShortBaseNoSpikeFilter(df) ==
    LET volatility_ok == VolatilityOk(df)
    IN  [i \in DOMAIN df.close |->
            /\ df.bear_regime[i]
            /\ Lt(df.close[i], df.lowest[i])
            /\ Lt(df.close[i], df.ema_slow[i])
            /\ volatility_ok[i]]

\* short_base (lines 160-166)
ShortBase(df) ==
    LET volatility_ok == VolatilityOk(df)
    IN  [i \in DOMAIN df.close |->
            /\ df.bear_regime[i]
            /\ Lt(df.close[i], df.lowest[i])
            /\ Lt(df.close[i], df.ema_slow[i])
            /\ volatility_ok[i]
            /\ df.no_atr_spike[i]]

\* the short mask with the boosted thresholds open at every row
ShortMaskBoostEverywhere(df) ==
    LET vol_surge_short == VolumeAbove(df, volume_mult_short)
        mom_down == MomentumDown(df, momentum_pct_short)
        vol_surge_short_boosted == VolumeAbove(df, volume_mult_short_boosted)
        mom_down_boosted == MomentumDown(df, momentum_pct_short_boosted)
    IN  [i \in DOMAIN df.close |->
            /\ ShortBase(df)[i]
            /\ \/ vol_surge_short[i] /\ mom_down[i]
               \/ vol_surge_short_boosted[i] /\ mom_down_boosted[i]]

\* the mask of the short entry (lines 170-173); fillna(False) leaves the
\* boolean post_distribution column as it is
ShortMask(df) ==
    LET vol_surge_short == VolumeAbove(df, volume_mult_short)
        mom_down == MomentumDown(df, momentum_pct_short)
        vol_surge_short_boosted == VolumeAbove(df, volume_mult_short_boosted)
        mom_down_boosted == MomentumDown(df, momentum_pct_short_boosted)
        short_base == ShortBase(df)
    IN  [i \in DOMAIN df.close |->
            /\ short_base[i]
            /\ \/ vol_surge_short[i] /\ mom_down[i]
               \/ df.post_distribution[i] /\ vol_surge_short_boosted[i]
                                          /\ mom_down_boosted[i]]

\* dataframe.loc[mask, column] = 1 on a column that does not exist yet: 1
\* where the mask holds, NaN elsewhere
SetWhere(mask) == [i \in DOMAIN mask |-> IF mask[i] THEN Num(1) ELSE NaN]

populate_entry_trend(df) ==
    df @@ [enter_long |-> SetWhere(LongMask(df)),
           enter_short |-> SetWhere(ShortMask(df))]

(* -------------------- populate_exit_trend (178-181) -------------------- *)
populate_exit_trend(df) ==
    df @@ [exit_long |-> [i \in DOMAIN df.close |-> Num(0)],
           exit_short |-> [i \in DOMAIN df.close |-> Num(0)]]

(* ------------------------------ candles -------------------------------- *)
\* Close of the candle before the first one.
FirstPrice == 10000

\* The candles the exchange may close next, each given by its move from the
\* previous close (dc), its wicks above and below the body (up, dn) and its
\* volume: a flat candle with wicks on a base volume, an up surge, a down
\* surge, a weaker down move, and a candle without a trade (the host fills a
\* gap with high = low = close and volume 0).
Flat == [dc |-> 0, up |-> 100, dn |-> 100, volume |-> 1000]

Up == [dc |-> 250, up |-> 0, dn |-> 0, volume |-> 20000]

Down == [dc |-> 0 - 350, up |-> 0, dn |-> 0, volume |-> 20000]

Slide == [dc |-> 0 - 250, up |-> 0, dn |-> 0, volume |-> 6000]

Gap == [dc |-> 0, up |-> 0, dn |-> 0, volume |-> 0]

\* a trending market
Trend == {Flat, Up, Down}

Shapes == {Flat, Up, Down, Slide, Gap}

LastClose(cs) == IF cs = <<>> THEN FirstPrice ELSE cs[Len(cs)].close

\* an OHLCV candle: low <= open, close <= high, volume >= 0
Candle(prev, shape) ==
    LET close == prev + shape.dc
    IN  [open |-> prev,
         high |-> (IF close > prev THEN close ELSE prev) + shape.up,
         low |-> (IF close < prev THEN close ELSE prev) - shape.dn,
         close |-> close,
         volume |-> shape.volume]

\* the table the host hands to populate_indicators
OhlcvFrame(cs) ==
    LET rows == 0..(Len(cs) - 1)
    IN  [open |-> [i \in rows |-> Num(cs[i + 1].open)],
         high |-> [i \in rows |-> Num(cs[i + 1].high)],
         low |-> [i \in rows |-> Num(cs[i + 1].low)],
         close |-> [i \in rows |-> Num(cs[i + 1].close)],
         volume |-> [i \in rows |-> Num(cs[i + 1].volume)]]

(* --------------------------- state machine ----------------------------- *)
Init ==
    /\ candles = <<>>
    /\ dataframe = OhlcvFrame(<<>>)
    /\ stage = "idle"

\* a candle closes and the host calls populate_indicators on the new table
PopulateIndicators(shape, limit) ==
    /\ stage \in {"idle", "exit"}
    /\ Len(candles) < limit
    /\ candles' = Append(candles, Candle(LastClose(candles), shape))
    /\ dataframe' = populate_indicators(OhlcvFrame(candles'))
    /\ stage' = "indicators"

PopulateEntryTrend ==
    /\ stage = "indicators"
    /\ dataframe' = populate_entry_trend(dataframe)
    /\ stage' = "entry"
    /\ UNCHANGED candles

PopulateExitTrend ==
    /\ stage = "entry"
    /\ dataframe' = populate_exit_trend(dataframe)
    /\ stage' = "exit"
    /\ UNCHANGED candles

Analyze == \E shape \in Trend : PopulateIndicators(shape, MaxLen)

AnalyzeAll == \E shape \in Shapes : PopulateIndicators(shape, MaxLenAll)

Next == Analyze \/ PopulateEntryTrend \/ PopulateExitTrend

NextAll == AnalyzeAll \/ PopulateEntryTrend \/ PopulateExitTrend

\* long tables of a trending market
Spec == Init /\ [][Next]_vars

\* short tables of every kind of candle
SpecAll == Init /\ [][NextAll]_vars

(* ------------------------------ reading -------------------------------- *)
Rows == DOMAIN dataframe.close

\* populate_indicators has run on the table
Indicated == stage \in {"indicators", "entry", "exit"}

\* populate_entry_trend has run on the table
Entered == stage \in {"entry", "exit"}

IsSet(cell) == cell = Num(1)

\* the highest high of the breakout_period candles before row i
HighBefore(i) == MaxOf({Val(dataframe.high[k]) : k \in (i - breakout_period)..(i - 1)})

\* the lowest low of the breakout_period candles before row i
LowBefore(i) == MinOf({Val(dataframe.low[k]) : k \in (i - breakout_period)..(i - 1)})

\* the close momentum_lookback candles before row i
CloseBefore(i) == Val(dataframe.close[i - momentum_lookback])

\* volume > tenths/10 x the volume SMA at row i
VolumeOver(i, tenths) ==
    /\ IsNum(dataframe.volume_sma[i])
    /\ 10 * Val(dataframe.volume[i]) > tenths * Val(dataframe.volume_sma[i])

\* ATR < 2.0 x the ATR mean at row i
AtrCalm(i) ==
    /\ IsNum(dataframe.atr[i]) /\ IsNum(dataframe.atr_avg[i])
    /\ 10 * Val(dataframe.atr[i]) < 20 * Val(dataframe.atr_avg[i])

(* ------------------------------- C1 ------------------------------------ *)
\* C1: once populate_indicators and populate_entry_trend have run, no row
\* has both enter_long and enter_short set, and no row is in both the bull
\* and the bear regime.
C1_LongShortExclusive ==
    Entered =>
        \A i \in Rows :
            /\ ~(IsSet(dataframe.enter_long[i]) /\ IsSet(dataframe.enter_short[i]))
            /\ ~(dataframe.bull_regime[i] /\ dataframe.bear_regime[i])

\* one table with a long entry in a bull row and a short entry in a bear row
C1_Witness ==
    /\ Entered
    /\ \E i \in Rows : dataframe.bull_regime[i] /\ IsSet(dataframe.enter_long[i])
    /\ \E i \in Rows : dataframe.bear_regime[i] /\ IsSet(dataframe.enter_short[i])

(* ------------------------------- C2 ------------------------------------ *)
\* The first row at which every operand of the long mask is a number: the
\* slow EMA (row ema_slow - 1; 79 in the source), the ATR mean, the breakout
\* level, the volume SMA and the earlier close come no later.
WarmupLong ==
    MaxOf({ema_slow - 1, ema_fast - 1, atr_period + atr_avg_period - 1,
           breakout_period, volume_sma_period - 1, momentum_lookback})

\* The first row at which every operand of the short mask is a number: the
\* trend SMA (row sma_trend - 1; 199 in the source) comes last.
WarmupShort == MaxOf({WarmupLong, sma_trend - 1})

\* C2 as stated: every row before startup_candle_count has neither flag set.
C2_Original ==
    Entered =>
        \A i \in Rows :
            i < startup_candle_count =>
                ~IsSet(dataframe.enter_long[i]) /\ ~IsSet(dataframe.enter_short[i])

\* C2, amended: enter_long is unset at every row before WarmupLong and
\* enter_short at every row before WarmupShort, the rows at which an operand
\* of the mask is still NaN.
C2_UnsetBeforeOperands ==
    Entered =>
        \A i \in Rows :
            /\ i < WarmupLong => ~IsSet(dataframe.enter_long[i])
            /\ i < WarmupShort => ~IsSet(dataframe.enter_short[i])

\* a table with enter_long set at row WarmupLong and enter_short set at a
\* later row, both before startup_candle_count
C2_Witness ==
    /\ Entered
    /\ WarmupLong \in Rows
    /\ WarmupLong < startup_candle_count
    /\ IsSet(dataframe.enter_long[WarmupLong])
    /\ \E j \in Rows : j < startup_candle_count /\ IsSet(dataframe.enter_short[j])

(* ------------------------------- C3 ------------------------------------ *)
\* the six conditions of the long entry at row i, from the columns
LongConditions(i) ==
    /\ Gt(dataframe.ema_fast[i], dataframe.ema_slow[i])
    /\ i >= breakout_period /\ Val(dataframe.close[i]) > HighBefore(i)
    /\ Gt(dataframe.close[i], dataframe.ema_slow[i])
    /\ VolumeOver(i, 27)
    /\ i >= momentum_lookback /\ 100 * Val(dataframe.close[i]) > 102 * CloseBefore(i)
    /\ AtrCalm(i)

\* C3: enter_long is set at row i exactly when the six conditions hold at i;
\* a condition with a NaN operand does not hold.
C3_EnterLongIff ==
    Entered => \A i \in Rows : IsSet(dataframe.enter_long[i]) <=> LongConditions(i)

\* a table with enter_long set at one row and, at another row, a breakout
\* above the slow EMA on momentum that the volume does not confirm
C3_Witness ==
    /\ Entered
    /\ \E i \in Rows : IsSet(dataframe.enter_long[i])
    /\ \E i \in Rows :
          /\ dataframe.bull_regime[i]
          /\ i >= breakout_period /\ Val(dataframe.close[i]) > HighBefore(i)
          /\ AtrCalm(i)
          /\ ~VolumeOver(i, 27)

(* ------------------------------- C4 ------------------------------------ *)
\* the conditions of the short entry at row i, from the columns
ShortConditions(i) ==
    /\ Lt(dataframe.ema_fast[i], dataframe.ema_slow[i])
    /\ Lt(dataframe.close[i], dataframe.sma_trend[i])
    /\ i >= breakout_period /\ Val(dataframe.close[i]) < LowBefore(i)
    /\ Lt(dataframe.close[i], dataframe.ema_slow[i])
    /\ AtrCalm(i)
    /\ dataframe.no_atr_spike[i]
    /\ \/ /\ VolumeOver(i, 27)
          /\ i >= momentum_lookback
          /\ 100 * Val(dataframe.close[i]) < 97 * CloseBefore(i)
       \/ /\ dataframe.post_distribution[i]
          /\ VolumeOver(i, 22)
          /\ i >= momentum_lookback
          /\ 100 * Val(dataframe.close[i]) < 98 * CloseBefore(i)

\* C4: enter_short is set at row i exactly when the bear regime, the
\* breakout below the lowest low, close < ema_slow, the calm ATR, no_atr_spike
\* and the standard or the boosted volume and momentum condition hold at i.
C4_EnterShortIff ==
    Entered => \A i \in Rows : IsSet(dataframe.enter_short[i]) <=> ShortConditions(i)

\* a short entry on the standard condition at a row that is not
\* post-distribution
C4_Witness ==
    /\ Entered
    /\ \E i \in Rows : IsSet(dataframe.enter_short[i]) /\ ~dataframe.post_distribution[i]

(* ------------------------------- C5 ------------------------------------ *)
\* the table with candle i's high raised and its low lowered by d
Stretched(i, d) ==
    [dataframe EXCEPT !.high[i] = Num(Val(@) + d), !.low[i] = Num(Val(@) - d)]

\* C5: highest and lowest at row i are the highest high and the lowest low of
\* the breakout_period rows before i (NaN while fewer rows precede i), and
\* stretching candle i's own high and low changes neither breakout condition
\* at i.
C5_BreakoutExcludesOwnCandle ==
    Indicated =>
        \A i \in Rows :
            /\ dataframe.highest[i] = IF i >= breakout_period THEN Num(HighBefore(i)) ELSE NaN
            /\ dataframe.lowest[i] = IF i >= breakout_period THEN Num(LowBefore(i)) ELSE NaN
            /\ \A d \in {1, 1000} :
                  /\ Gt(dataframe.close[i], Highest(Stretched(i, d))[i])
                        <=> Gt(dataframe.close[i], dataframe.highest[i])
                  /\ Lt(dataframe.close[i], Lowest(Stretched(i, d))[i])
                        <=> Lt(dataframe.close[i], dataframe.lowest[i])

\* a candle whose high is above the breakout level and whose close is not
C5_Witness ==
    /\ Indicated
    /\ \E i \in Rows :
          /\ IsNum(dataframe.highest[i])
          /\ Val(dataframe.high[i]) > Val(dataframe.highest[i])
          /\ ~Gt(dataframe.close[i], dataframe.highest[i])

(* ------------------------------- C6 ------------------------------------ *)
\* the ATR at row i is above 1.52 x the lowest ATR of the atr_spike_lookback
\* rows that end at i
AtrSpike(i) ==
    /\ Full(dataframe.atr, i, atr_spike_lookback)
    /\ 100 * Val(dataframe.atr[i]) >
          152 * MinOf({Val(dataframe.atr[k]) : k \in Window(i, atr_spike_lookback)})

\* every short condition but the spike filter holds at row i
ShortBarSpike(i) ==
    /\ dataframe.bear_regime[i]
    /\ Lt(dataframe.close[i], dataframe.lowest[i])
    /\ Lt(dataframe.close[i], dataframe.ema_slow[i])
    /\ AtrCalm(i)
    /\ VolumeOver(i, 27)
    /\ i >= momentum_lookback /\ 100 * Val(dataframe.close[i]) < 97 * CloseBefore(i)

\* C6: enter_short is not set at a row with an ATR spike.
C6_SpikeBlocksShort ==
    Entered => \A i \in Rows : AtrSpike(i) => ~IsSet(dataframe.enter_short[i])

\* an ATR spike at a row where every other short condition holds
C6_Witness == Entered /\ \E i \in Rows : AtrSpike(i) /\ ShortBarSpike(i)

(* ------------------------------- C7 ------------------------------------ *)
\* the distribution series of the table (line 128)
DistributionRows == Distribution(dataframe, dataframe.atr, dataframe.atr_avg)

\* C7: after a distribution row j, post_distribution holds at each of the
\* rows j+1..j+wyckoff_period; it is false at row j+wyckoff_period+1 when none
\* of the rows j+1..j+wyckoff_period is a distribution row; and the flag at a
\* row stays as it is when that row's own distribution flag is flipped.
C7_PostDistributionWindow ==
    Indicated =>
        LET dist == DistributionRows
        IN  \A j \in Rows :
                /\ dist[j] =>
                      \A k \in (j + 1)..(j + wyckoff_period) :
                          k \in Rows => dataframe.post_distribution[k]
                /\ ( /\ dist[j]
                     /\ j + wyckoff_period + 1 \in Rows
                     /\ \A k \in (j + 1)..(j + wyckoff_period) : ~dist[k] )
                      => ~dataframe.post_distribution[j + wyckoff_period + 1]
                /\ PostDistribution([dist EXCEPT ![j] = ~@])[j]
                      = dataframe.post_distribution[j]

\* a distribution row j whose flag is still up at row j+wyckoff_period and
\* cleared at the next row
C7_Witness ==
    /\ Indicated
    /\ \E j \in Rows :
          /\ DistributionRows[j]
          /\ j + wyckoff_period + 1 \in Rows
          /\ dataframe.post_distribution[j + wyckoff_period]
          /\ ~dataframe.post_distribution[j + wyckoff_period + 1]

(* ------------------------------- C8 ------------------------------------ *)
\* 0 <= q <= 1 of a fraction: over 1e-10 only 0 is within [0, 1]
InUnit(q) ==
    /\ q.num >= 0
    /\ IF q.den = Epsilon THEN q.num = 0 ELSE q.num <= Val(q.den)

\* C8: at every row with a full wyckoff_period window, range_position is
\* (close - range_low) over (range_high - range_low) and lies within [0, 1];
\* the divisor is never 0, and is 1e-10 where the range is 0 wide.
C8_RangePositionInUnit ==
    Indicated =>
        \A i \in Rows :
            i >= wyckoff_period - 1 =>
                LET q == RangePosition(dataframe)[i]
                    rows == Window(i, wyckoff_period)
                    range_high == MaxOf({Val(dataframe.high[k]) : k \in rows})
                    range_low == MinOf({Val(dataframe.low[k]) : k \in rows})
                IN  /\ IsNum(q)
                    /\ q.num = Val(dataframe.close[i]) - range_low
                    /\ q.den # Num(0)
                    /\ q.den = IF range_high = range_low THEN Epsilon
                               ELSE Num(range_high - range_low)
                    /\ InUnit(q)

\* a full window that is 0 wide, in a table that also has a full window with
\* the close strictly inside the range
C8_Witness ==
    /\ Indicated
    /\ \E i \in Rows : i >= wyckoff_period - 1 /\ RangeSize(dataframe)[i] = Num(0)
    /\ \E i \in Rows :
          /\ i >= wyckoff_period - 1
          /\ RangePosition(dataframe)[i].num > 0
          /\ RangePosition(dataframe)[i].den # Epsilon
          /\ RangePosition(dataframe)[i].num < Val(RangePosition(dataframe)[i].den)

(* ------------------------------- C9 ------------------------------------ *)
\* the two callbacks run on the first n candles
OnPrefix(n) == populate_entry_trend(populate_indicators(OhlcvFrame(SubSeq(candles, 1, n))))

\* C9: every column that the two callbacks compute on the first n candles
\* alone is, row by row, what they have computed on the whole table.
C9_PrefixDeterminism ==
    stage = "entry" =>
        \A n \in 0..Len(candles) :
            LET short == OnPrefix(n)
            IN  \A column \in DOMAIN short :
                    \A i \in 0..(n - 1) : short[column][i] = dataframe[column][i]

\* a table with an entry flag set at a row that later candles follow
C9_Witness ==
    /\ Entered
    /\ \E i \in Rows :
          /\ i + 2 \in Rows
          /\ IsSet(dataframe.enter_long[i]) \/ IsSet(dataframe.enter_short[i])

(* ------------------------------- C10 ----------------------------------- *)
\* the table with post_distribution at row i set to b
WithPost(i, b) == [dataframe EXCEPT !.post_distribution[i] = b]

\* C10: at every row the standard short volume and momentum condition
\* implies the boosted one; turning post_distribution on at a row never
\* clears the short mask there; and at a post-distribution row enter_short
\* is set exactly when short_base and the boosted thresholds (2.2 x volume
\* SMA, 2 % down) hold.
C10_BoostOnlyLoosens ==
    Entered =>
        \A i \in Rows :
            /\ ( /\ VolumeAbove(dataframe, volume_mult_short)[i]
                 /\ MomentumDown(dataframe, momentum_pct_short)[i] )
                  => ( /\ VolumeAbove(dataframe, volume_mult_short_boosted)[i]
                       /\ MomentumDown(dataframe, momentum_pct_short_boosted)[i] )
            /\ ShortMask(WithPost(i, FALSE))[i] => ShortMask(WithPost(i, TRUE))[i]
            /\ dataframe.post_distribution[i] =>
                  ( IsSet(dataframe.enter_short[i]) <=>
                        /\ ShortBase(dataframe)[i]
                        /\ VolumeOver(i, 22)
                        /\ i >= momentum_lookback
                        /\ 100 * Val(dataframe.close[i]) < 98 * CloseBefore(i) )

\* a post-distribution row with enter_short set on the boosted thresholds
\* where the standard volume condition fails
C10_Witness ==
    /\ Entered
    /\ \E i \in Rows :
          /\ dataframe.post_distribution[i]
          /\ IsSet(dataframe.enter_short[i])
          /\ ~VolumeOver(i, 27)

====
